---- MODULE Spec2Model ----
(***************************************************************************)
(* Model of token_manager.py: the zone refresh engine (refresh_zone), the  *)
(* startup reconciler (check_and_refresh_on_startup) and the staleness     *)
(* monitor (check_token_validity), together with the remote file store,    *)
(* the auth endpoint and the clock they talk to.                           *)
(*                                                                         *)
(* One coroutine runs at a time; every await on the network is one step,   *)
(* so the external actor (a manual edit of a token file) and the clock can *)
(* act between any two network calls of a refresh cycle.                   *)
(***************************************************************************)
EXTENDS Integers, Sequences, FiniteSets, TLC

VARIABLES
    now,                \* the clock, in hours
    store,              \* the remote repository: per zone, the token file
    configs,            \* the local files configs/config_<zone>.json
    last_commit_times,  \* the module-level cache of publish times
    pc,                 \* where the running coroutine stands
    caller,             \* who awaits refresh_zone: "startup", "monitor", "direct"
    zi,                 \* position of the caller's `for zone in ZONES` loop
    zone,               \* refresh_zone: the (lower-cased) argument
    accounts,           \* refresh_zone: config_data[:MAX_TOKENS]
    idx,                \* refresh_zone: position of `for acc in accounts`
    tokens,             \* refresh_zone: the batch being assembled
    count_success,      \* refresh_zone
    count_fail,         \* refresh_zone
    processed_count,    \* refresh_zone
    sha,                \* refresh_zone: the revision read before the write
    write_status,       \* update_github_file: r.status (0: no response)
    updated,            \* refresh_zone: what update_github_file returned
    commit_dt,          \* check_token_validity: the last answer of lastModified
    time_diff,          \* check_token_validity: now - commit_dt, when computed
    called_with,        \* the identifier refresh_zone was last called with
    notes,              \* notify_discord calls of the current zone's handling
    attempts,           \* auth fetches of the current cycle: <<position, result>>
    calls,              \* store calls of the current cycle: reads and writes
    changed_in,         \* the phase of the current cycle in which another actor
                        \* changed the cycle's token file ("": in none)
    extLeft             \* edits the external actor may still make

vars == << now, store, configs, last_commit_times, pc, caller, zi, zone,
           accounts, idx, tokens, count_success, count_fail, processed_count,
           sha, write_status, updated, commit_dt, time_diff, called_with, notes,
           attempts, calls, changed_in, extLeft >>

(***************************************************************************)
(* Configuration (token_manager.py, lines 13-26).                          *)
(***************************************************************************)
ZONES == << "br", "ind", "bd" >>

ZoneSet == { ZONES[i] : i \in 1..Len(ZONES) }

\* 110 in the source; scaled down so that a list longer than the cap fits.
MAX_TOKENS == 2

STALE_TOKEN_HOURS == 6

\* 20 in the source (`processed_count % 20`); scaled down with MAX_TOKENS.
ProgressEvery == 2

(***************************************************************************)
(* Bounds of the model.                                                    *)
(***************************************************************************)
\* Steps of the clock in one behaviour; one step is the stale threshold,
\* so that a file is seen at exactly the threshold and beyond it.
MaxTicks == 2
TickHours == STALE_TOKEN_HOURS
MaxTime == MaxTicks * TickHours

\* Edits of the external actor in one behaviour.
MaxExternal == 1

\* Longest account list: one record more than the cap.
MaxAccounts == MAX_TOKENS + 1

(***************************************************************************)
(* Values.                                                                 *)
(***************************************************************************)
\* Python's None for a datetime.
NoTime == 0 - 1

\* Python's None for a token, and for a revision.
NoToken == "None"
NoSha == << >>

\* The token the auth service issues for the account at position i.
TokenNames == << "tok1", "tok2", "tok3", "tok4", "tok5" >>
TokenOf(i) == TokenNames[i]

\* Account records of a config file: a record may lack either field.
Full  == [uid |-> "u", password |-> "p"]
NoPw  == [uid |-> "u"]
NoUid == [password |-> "p"]
RecordKinds == { Full, NoPw, NoUid }

RECURSIVE SeqsUpTo(_, _)
SeqsUpTo(S, n) ==
    IF n = 0 THEN { << >> }
    ELSE LET shorter == SeqsUpTo(S, n - 1)
         IN  shorter \cup { Append(s, x) : s \in { t \in shorter : Len(t) = n - 1 }, x \in S }

AccountLists == SeqsUpTo(RecordKinds, MaxAccounts)

\* A config file: absent, not a JSON list of objects, or a list of records.
Missing == [kind |-> "missing", data |-> << >>]
Invalid == [kind |-> "invalid", data |-> << >>]
ListOf(l) == [kind |-> "list", data |-> l]

\* Content a manual edit leaves in a token file.
ExtContent == << [token |-> "manual"] >>

\* A token file of the store: whether it exists, its content, and the time
\* of the last commit that touched its path (NoTime: no history).
NoFile == [exists |-> FALSE, content |-> << >>, mtime |-> NoTime]

\* The blob revision of a file content: one revision per content.
BlobSha(content) == << "sha", content >>

Revision(f) == IF f.exists THEN BlobSha(f.content) ELSE NoSha

\* str.lower() on the identifiers a caller may pass.
ZoneInputs == ZoneSet \cup { "BR", "xx" }

\* Faulty variant: the identifier is used as passed.
Lower_identity(s) == s

Lower(s) == IF s = "BR" THEN "br" ELSE s

(***************************************************************************)
(* Helpers of the code.                                                    *)
(***************************************************************************)
\* notify_discord: one message to the webhook; never raises.
notify_discord(log, message) == Append(log, message)

\* Faulty variant: `if token is not None:`.
Truthy_not_none(token) == token # NoToken

\* `if token:` -- None and the empty string are falsy.
Truthy(token) == token # NoToken /\ token # ""

\* Faulty variant: only `'uid' in acc` is tested.
HasCredentials_uid_only(acc) == "uid" \in DOMAIN acc

\* `'uid' in acc and 'password' in acc`
HasCredentials(acc) == "uid" \in DOMAIN acc /\ "password" \in DOMAIN acc

\* Faulty variant: the list is not truncated.
Truncate_none(config_data) == config_data

\* `config_data[:MAX_TOKENS]`
Truncate(config_data) ==
    SubSeq(config_data, 1, IF Len(config_data) < MAX_TOKENS THEN Len(config_data) ELSE MAX_TOKENS)

\* Faulty variant: `time_diff > timedelta(minutes=STALE_TOKEN_HOURS)`, which
\* every age of an hour or more exceeds.
IsStale_minutes(t, commit) == t - commit > STALE_TOKEN_HOURS \div 60

\* Faulty variant: `time_diff >= timedelta(hours=STALE_TOKEN_HOURS)`.
IsStale_inclusive(t, commit) == t - commit >= STALE_TOKEN_HOURS

\* `time_diff > timedelta(hours=STALE_TOKEN_HOURS)`
IsStale(t, commit) == t - commit > STALE_TOKEN_HOURS

\* `processed_count % 20 == 0`
ProgressDue(n) == n % ProgressEvery = 0

\* What a network call can meet: a response of the service ("ok"), a
\* response with an error status ("status"), or a transport exception.
Outcomes == { "ok", "status", "raise" }

\* get_auth_token: the token of a 200 response (which may be null or
\* empty); None on any other status and on any exception.
AuthResults(i) == { TokenOf(i), "", NoToken }

\* github_file_exists: `response.status == 200`.
github_file_exists(f, outcome) == outcome = "ok" /\ f.exists

\* Faulty variant: an empty history is answered with the epoch.
get_github_file_commit_info_epoch(f, outcome) ==
    IF outcome # "ok" THEN NoTime
    ELSE IF f.mtime = NoTime THEN 0 ELSE f.mtime

\* get_github_file_commit_info: the date of the newest commit of the path;
\* None on a non-200 status and on an empty history.
get_github_file_commit_info(f, outcome) ==
    IF outcome = "ok" THEN f.mtime ELSE NoTime

\* get_github_file_content, second component: the revision of a 200
\* response; None on any other status (404 included).
get_github_file_content(f, outcome) ==
    IF outcome = "ok" THEN Revision(f) ELSE NoSha

\* The store's answer to PUT contents.  It accepts the write when the
\* revision sent is the file's current one (none for a file to create):
\* 200 for an update, 201 for a creation; 409 on another revision, 422 on
\* a revision missing for an existing file.  A request that fails on the
\* way ("status": 5xx, 401, 403; "raise": no response, status 0) is not
\* applied.
StorePut(f, rev, outcome) ==
    CASE outcome = "raise" -> 0
      [] outcome = "status" -> 500
      [] rev = Revision(f) -> IF f.exists THEN 200 ELSE 201
      [] rev = NoSha -> 422
      [] OTHER -> 409

\* Faulty variant: any response counts as success, only an exception as failure.
update_github_file_any_response(status) == status # 0

\* update_github_file: `r.status in [200, 201]`; False on an exception.
update_github_file(status) == status \in { 200, 201 }

\* The file after an accepted write: the whole document, committed now.
Written(content, t) == [exists |-> TRUE, content |-> content, mtime |-> t]

(***************************************************************************)
(* Control: where the caller of refresh_zone goes on.                      *)
(***************************************************************************)
\* The process runs the reconciler once and then the monitor.
AfterStartup == << "monitor", 1 >>

\* The next position of the caller's loop over ZONES; the monitor sleeps
\* after the last zone.
NextPos(who) ==
    CASE who = "startup" ->
            IF zi < Len(ZONES) THEN << "startup", zi + 1 >> ELSE AfterStartup
      [] who = "monitor" ->
            IF zi < Len(ZONES) THEN << "monitor", zi + 1 >> ELSE << "sleep", zi >>
      [] OTHER -> << "idle", zi >>

Resume(who) ==
    /\ pc' = NextPos(who)[1]
    /\ zi' = NextPos(who)[2]

NoCalls == [read |-> 0, write |-> 0]

ClearCounters ==
    /\ idx' = 1
    /\ tokens' = << >>
    /\ count_success' = 0
    /\ count_fail' = 0
    /\ processed_count' = 0
    /\ sha' = NoSha
    /\ write_status' = 0
    /\ updated' = FALSE
    /\ attempts' = << >>
    /\ calls' = NoCalls
    /\ changed_in' = ""

ClearLocals ==
    /\ accounts' = << >>
    /\ ClearCounters

(***************************************************************************)
(* refresh_zone, up to its first await (lines 105-132).                    *)
(***************************************************************************)
\* Faulty variant: a missing config file is taken for an empty account list.
refresh_zone_enter_default_list(arg, who, log) ==
    LET z == Lower(arg) IN
    /\ zone' = z
    /\ called_with' = arg
    /\ caller' = who
    /\ IF z \notin ZoneSet
       THEN /\ notes' = notify_discord(log, "unknown")
            /\ ClearLocals
            /\ Resume(who)
       ELSE LET log1 == notify_discord(log, "refreshing") IN
            IF configs[z].kind = "invalid"
            THEN /\ notes' = notify_discord(log1, "error")
                 /\ ClearLocals
                 /\ Resume(who)
            ELSE /\ notes' = log1
                 /\ accounts' = Truncate(configs[z].data)
                 /\ ClearCounters
                 /\ pc' = "rz_fetch"
                 /\ zi' = zi

refresh_zone_enter(arg, who, log) ==
    LET z == Lower(arg) IN
    /\ zone' = z
    /\ called_with' = arg
    /\ caller' = who
    /\ IF z \notin ZoneSet
       THEN /\ notes' = notify_discord(log, "unknown")
            /\ ClearLocals
            /\ Resume(who)
       ELSE LET log1 == notify_discord(log, "refreshing") IN
            CASE configs[z].kind = "missing" ->
                    /\ notes' = notify_discord(log1, "noconfig")
                    /\ ClearLocals
                    /\ Resume(who)
              [] configs[z].kind = "invalid" ->
                    /\ notes' = notify_discord(log1, "error")
                    /\ ClearLocals
                    /\ Resume(who)
              [] OTHER ->
                    /\ notes' = log1
                    /\ accounts' = Truncate(configs[z].data)
                    /\ ClearCounters
                    /\ pc' = "rz_fetch"
                    /\ zi' = zi

(***************************************************************************)
(* refresh_zone: one turn of `for acc in accounts` (lines 135-145).        *)
(***************************************************************************)
\* Faulty variant: the token file is rewritten after every successful fetch.
refresh_zone_fetch_publishing ==
    /\ pc = "rz_fetch"
    /\ idx <= Len(accounts)
    /\ \E result \in AuthResults(idx) :
          LET attempted == HasCredentials(accounts[idx])
              processed == IF attempted THEN processed_count + 1 ELSE processed_count
          IN  /\ processed_count' = processed
              /\ attempts' = IF attempted THEN Append(attempts, << idx, result >>) ELSE attempts
              /\ tokens' = IF attempted /\ Truthy(result)
                           THEN Append(tokens, [token |-> result]) ELSE tokens
              /\ count_success' = IF attempted /\ Truthy(result)
                                  THEN count_success + 1 ELSE count_success
              /\ count_fail' = IF attempted /\ ~Truthy(result)
                               THEN count_fail + 1 ELSE count_fail
              /\ notes' = IF ProgressDue(processed)
                          THEN notify_discord(notes, "progress") ELSE notes
              /\ store' = IF attempted /\ Truthy(result)
                          THEN [store EXCEPT ![zone] = Written(tokens', now)]
                          ELSE store
    /\ idx' = idx + 1
    /\ UNCHANGED << now, configs, last_commit_times, pc, caller, zi, zone,
                    accounts, sha, write_status, updated, commit_dt, time_diff,
                    called_with, calls, extLeft >>
    /\ UNCHANGED changed_in

\* Faulty variant: the revision is read at the head of the loop, before the
\* first fetch.
refresh_zone_fetch_after_read ==
    /\ pc = "rz_fetch"
    /\ idx <= Len(accounts)
    /\ \E result \in AuthResults(idx) :
          LET attempted == HasCredentials(accounts[idx])
              processed == IF attempted THEN processed_count + 1 ELSE processed_count
          IN  /\ processed_count' = processed
              /\ attempts' = IF attempted THEN Append(attempts, << idx, result >>) ELSE attempts
              /\ tokens' = IF attempted /\ Truthy(result)
                           THEN Append(tokens, [token |-> result]) ELSE tokens
              /\ count_success' = IF attempted /\ Truthy(result)
                                  THEN count_success + 1 ELSE count_success
              /\ count_fail' = IF attempted /\ ~Truthy(result)
                               THEN count_fail + 1 ELSE count_fail
              /\ notes' = IF ProgressDue(processed)
                          THEN notify_discord(notes, "progress") ELSE notes
    /\ idx' = idx + 1
    /\ sha' = IF idx = 1 THEN get_github_file_content(store[zone], "ok") ELSE sha
    /\ UNCHANGED << now, store, configs, last_commit_times, pc, caller, zi, zone,
                    accounts, write_status, updated, commit_dt, time_diff, called_with,
                    calls, changed_in, extLeft >>

refresh_zone_fetch ==
    /\ pc = "rz_fetch"
    /\ idx <= Len(accounts)
    /\ \E result \in AuthResults(idx) :
          LET attempted == HasCredentials(accounts[idx])
              processed == IF attempted THEN processed_count + 1 ELSE processed_count
          IN  /\ processed_count' = processed
              /\ attempts' = IF attempted THEN Append(attempts, << idx, result >>) ELSE attempts
              /\ tokens' = IF attempted /\ Truthy(result)
                           THEN Append(tokens, [token |-> result]) ELSE tokens
              /\ count_success' = IF attempted /\ Truthy(result)
                                  THEN count_success + 1 ELSE count_success
              /\ count_fail' = IF attempted /\ ~Truthy(result)
                               THEN count_fail + 1 ELSE count_fail
              /\ notes' = IF ProgressDue(processed)
                          THEN notify_discord(notes, "progress") ELSE notes
    /\ idx' = idx + 1
    /\ UNCHANGED << now, store, configs, last_commit_times, pc, caller, zi, zone,
                    accounts, sha, write_status, updated, commit_dt, time_diff, called_with,
                    calls, extLeft >>
    /\ UNCHANGED changed_in

(***************************************************************************)
(* refresh_zone: the summary and the read of the revision (147-150).  An   *)
(* exception of the read is caught by refresh_zone's handler (160-161).    *)
(***************************************************************************)
\* Faulty variant: a cycle without any token gives up before the read.
refresh_zone_read_unless_empty ==
    /\ pc = "rz_fetch"
    /\ idx > Len(accounts)
    /\ LET log == notify_discord(notes, "summary") IN
       IF tokens = << >>
       THEN /\ notes' = notify_discord(log, "failed")
            /\ Resume(caller)
            /\ UNCHANGED << sha, calls >>
       ELSE /\ calls' = [calls EXCEPT !.read = @ + 1]
            /\ \E outcome \in Outcomes :
                  IF outcome = "raise"
                  THEN /\ notes' = notify_discord(log, "error")
                       /\ Resume(caller)
                       /\ sha' = sha
                  ELSE /\ notes' = log
                       /\ sha' = get_github_file_content(store[zone], outcome)
                       /\ pc' = "rz_write"
                       /\ zi' = zi
    /\ UNCHANGED << now, store, configs, last_commit_times, caller, zone, accounts,
                    idx, tokens, count_success, count_fail, processed_count,
                    write_status, updated, commit_dt, time_diff, called_with, attempts, extLeft >>
    /\ UNCHANGED changed_in

refresh_zone_read ==
    /\ pc = "rz_fetch"
    /\ idx > Len(accounts)
    /\ calls' = [calls EXCEPT !.read = @ + 1]
    /\ \E outcome \in Outcomes :
          LET log == notify_discord(notes, "summary") IN
          IF outcome = "raise"
          THEN /\ notes' = notify_discord(log, "error")
               /\ Resume(caller)
               /\ sha' = sha
          ELSE /\ notes' = log
               /\ sha' = get_github_file_content(store[zone], outcome)
               /\ pc' = "rz_write"
               /\ zi' = zi
    /\ UNCHANGED << now, store, configs, last_commit_times, caller, zone, accounts,
                    idx, tokens, count_success, count_fail, processed_count,
                    write_status, updated, commit_dt, time_diff, called_with, attempts, extLeft >>
    /\ UNCHANGED changed_in

(***************************************************************************)
(* refresh_zone: the write and its report (lines 152-159).                 *)
(***************************************************************************)
\* `json.dumps(tokens, indent=2)`: the document holding the whole batch.
Document(batch) == batch

\* Faulty variant: the `else` branch is missing.
WriteReport_always_updated(ok) == "updated"

\* Lines 155-159: the message that follows the write.
WriteReport(ok) == IF ok THEN "updated" ELSE "failed"

\* Faulty variant: the publish time is recorded whatever the write returned.
refresh_zone_write_caching ==
    /\ pc = "rz_write"
    /\ calls' = [calls EXCEPT !.write = @ + 1]
    /\ \E outcome \in Outcomes :
          LET status == StorePut(store[zone], sha, outcome) IN
          /\ store' = IF status \in { 200, 201 }
                      THEN [store EXCEPT ![zone] = Written(Document(tokens), now)]
                      ELSE store
          /\ write_status' = status
          /\ updated' = update_github_file(status)
    /\ last_commit_times' = [last_commit_times EXCEPT ![zone] = now]
    /\ notes' = notify_discord(notes, WriteReport(updated'))
    /\ Resume(caller)
    /\ UNCHANGED << now, configs, caller, zone, accounts, idx, tokens, count_success,
                    count_fail, processed_count, sha, commit_dt, time_diff,
                    called_with, attempts, extLeft >>
    /\ UNCHANGED changed_in

refresh_zone_write ==
    /\ pc = "rz_write"
    /\ calls' = [calls EXCEPT !.write = @ + 1]
    /\ \E outcome \in Outcomes :
          LET status == StorePut(store[zone], sha, outcome) IN
          /\ store' = IF status \in { 200, 201 }
                      THEN [store EXCEPT ![zone] = Written(Document(tokens), now)]
                      ELSE store
          /\ write_status' = status
          /\ updated' = update_github_file(status)
    /\ last_commit_times' = IF updated'
                            THEN [last_commit_times EXCEPT ![zone] = now]
                            ELSE last_commit_times
    /\ notes' = notify_discord(notes, WriteReport(updated'))
    /\ Resume(caller)
    /\ UNCHANGED << now, configs, caller, zone, accounts, idx, tokens, count_success,
                    count_fail, processed_count, sha, commit_dt, time_diff,
                    called_with, attempts, extLeft >>
    /\ UNCHANGED changed_in

(***************************************************************************)
(* check_and_refresh_on_startup: one turn of its loop (lines 169-176).  An *)
(* exception of github_file_exists is caught nowhere: the coroutine ends.  *)
(***************************************************************************)
check_and_refresh_on_startup ==
    /\ pc = "startup"
    /\ \E outcome \in Outcomes :
          IF outcome = "raise"
          THEN /\ pc' = "crashed"
               /\ notes' = << >>
               /\ ClearLocals
               /\ UNCHANGED << zi, zone, caller, called_with >>
          ELSE IF ~github_file_exists(store[ZONES[zi]], outcome)
          THEN refresh_zone_enter(ZONES[zi], "startup",
                   notify_discord(notify_discord(<< >>, "blank"), "nofile"))
          ELSE /\ notes' = notify_discord(<< >>, "found")
               /\ ClearLocals
               /\ Resume("startup")
               /\ UNCHANGED << zone, caller, called_with >>
    /\ UNCHANGED << now, store, configs, last_commit_times, commit_dt, time_diff,
                    extLeft >>

(***************************************************************************)
(* check_token_validity: one turn of `for zone in ZONES` (lines 182-193).  *)
(* An exception of get_github_file_commit_info ends the coroutine.         *)
(***************************************************************************)
\* Faulty variant: the cached publish time, when there is one, stands in
\* for the store's answer.
check_token_validity_cached ==
    /\ pc = "monitor"
    /\ \E outcome \in Outcomes :
          IF outcome = "raise"
          THEN /\ pc' = "crashed"
               /\ notes' = << >>
               /\ commit_dt' = NoTime
               /\ time_diff' = NoTime
               /\ ClearLocals
               /\ UNCHANGED << zi, zone, caller, called_with >>
          ELSE LET dt == IF last_commit_times[ZONES[zi]] # NoTime
                         THEN last_commit_times[ZONES[zi]]
                         ELSE get_github_file_commit_info(store[ZONES[zi]], outcome) IN
               /\ commit_dt' = dt
               /\ time_diff' = IF dt # NoTime THEN now - dt ELSE NoTime
               /\ IF dt # NoTime /\ IsStale(now, dt)
                  THEN refresh_zone_enter(ZONES[zi], "monitor",
                           notify_discord(notify_discord(<< >>, "blank"), "expired"))
                  ELSE /\ notes' = << >>
                       /\ ClearLocals
                       /\ Resume("monitor")
                       /\ UNCHANGED << zone, caller, called_with >>
    /\ UNCHANGED << now, store, configs, last_commit_times, extLeft >>

check_token_validity ==
    /\ pc = "monitor"
    /\ \E outcome \in Outcomes :
          IF outcome = "raise"
          THEN /\ pc' = "crashed"
               /\ notes' = << >>
               /\ commit_dt' = NoTime
               /\ time_diff' = NoTime
               /\ ClearLocals
               /\ UNCHANGED << zi, zone, caller, called_with >>
          ELSE LET dt == get_github_file_commit_info(store[ZONES[zi]], outcome) IN
               /\ commit_dt' = dt
               /\ time_diff' = IF dt # NoTime THEN now - dt ELSE NoTime
               /\ IF dt # NoTime /\ IsStale(now, dt)
                  THEN refresh_zone_enter(ZONES[zi], "monitor",
                           notify_discord(notify_discord(<< >>, "blank"), "expired"))
                  ELSE /\ notes' = << >>
                       /\ ClearLocals
                       /\ Resume("monitor")
                       /\ UNCHANGED << zone, caller, called_with >>
    /\ UNCHANGED << now, store, configs, last_commit_times, extLeft >>

\* `await asyncio.sleep(60)`, then the next `while True` turn (181, 196).
monitor_sleep ==
    /\ pc = "sleep"
    /\ pc' = "monitor"
    /\ zi' = 1
    /\ UNCHANGED << now, store, configs, last_commit_times, caller, zone, accounts,
                    idx, tokens, count_success, count_fail, processed_count, sha,
                    write_status, updated, commit_dt, time_diff, called_with, notes, attempts,
                    calls, extLeft >>
    /\ UNCHANGED changed_in

(***************************************************************************)
(* refresh_zone called with an identifier of the caller's choice.          *)
(***************************************************************************)
refresh_zone_call ==
    /\ pc = "idle"
    /\ \E arg \in ZoneInputs : refresh_zone_enter(arg, "direct", << >>)
    /\ UNCHANGED << now, store, configs, last_commit_times, commit_dt, time_diff,
                    extLeft >>

(***************************************************************************)
(* The environment: the clock, and an external actor who edits or deletes  *)
(* a token file in the repository.                                         *)
(***************************************************************************)
\* The phase of the running cycle that a change of zone z's file falls in:
\* "rz_fetch" from the cycle's start to its read of the revision,
\* "rz_write" between the read and the write.
ChangedIn(z) ==
    IF pc \in { "rz_fetch", "rz_write" } /\ z = zone THEN pc ELSE changed_in

Tick ==
    /\ now + TickHours <= MaxTime
    /\ now' = now + TickHours
    /\ UNCHANGED << store, configs, last_commit_times, pc, caller, zi, zone, accounts,
                    idx, tokens, count_success, count_fail, processed_count, sha,
                    write_status, updated, commit_dt, time_diff, called_with, notes, attempts,
                    calls, extLeft >>
    /\ UNCHANGED changed_in

ExternalEdit ==
    /\ extLeft > 0
    /\ \E z \in ZoneSet :
          /\ Revision(store[z]) # BlobSha(ExtContent)
          /\ store' = [store EXCEPT ![z] = Written(ExtContent, now)]
          /\ changed_in' = ChangedIn(z)
    /\ extLeft' = extLeft - 1
    /\ UNCHANGED << now, configs, last_commit_times, pc, caller, zi, zone, accounts,
                    idx, tokens, count_success, count_fail, processed_count, sha,
                    write_status, updated, commit_dt, time_diff, called_with, notes, attempts,
                    calls >>

ExternalDelete ==
    /\ extLeft > 0
    /\ \E z \in ZoneSet :
          /\ store[z].exists
          /\ store' = [store EXCEPT ![z] = [exists |-> FALSE, content |-> << >>, mtime |-> now]]
          /\ changed_in' = ChangedIn(z)
    /\ extLeft' = extLeft - 1
    /\ UNCHANGED << now, configs, last_commit_times, pc, caller, zi, zone, accounts,
                    idx, tokens, count_success, count_fail, processed_count, sha,
                    write_status, updated, commit_dt, time_diff, called_with, notes, attempts,
                    calls >>

(***************************************************************************)
(* Specifications.                                                         *)
(***************************************************************************)
InitLocals ==
    /\ zone = ""
    /\ accounts = << >>
    /\ idx = 1
    /\ tokens = << >>
    /\ count_success = 0
    /\ count_fail = 0
    /\ processed_count = 0
    /\ sha = NoSha
    /\ write_status = 0
    /\ updated = FALSE
    /\ commit_dt = NoTime
    /\ time_diff = NoTime
    /\ called_with = ""
    /\ notes = << >>
    /\ attempts = << >>
    /\ calls = NoCalls
    /\ changed_in = ""

\* A token file as the process finds it: absent, or committed at time 0.
InitFiles == { NoFile, Written(ExtContent, 0) }

\* The process as started: the reconciler runs first, then the monitor.
\* Every zone has a one-account list, but the second, whose config file
\* is missing or unreadable.
Init ==
    /\ now = 0
    /\ store \in [ZoneSet -> InitFiles]
    /\ \E c \in { Missing, Invalid } :
          configs = [z \in ZoneSet |-> IF z = ZONES[2] THEN c ELSE ListOf(<< Full >>)]
    /\ last_commit_times = [z \in ZoneSet |-> NoTime]
    /\ pc = "startup"
    /\ caller = "startup"
    /\ zi = 1
    /\ extLeft = MaxExternal
    /\ InitLocals

Next ==
    \/ check_and_refresh_on_startup
    \/ check_token_validity
    \/ monitor_sleep
    \/ refresh_zone_fetch
    \/ refresh_zone_read
    \/ refresh_zone_write
    \/ Tick
    \/ ExternalEdit
    \/ ExternalDelete

Spec == Init /\ [][Next]_vars

\* refresh_zone on its own, called with any identifier, at one instant of
\* the clock.  The first zone has any config file; the other zones have none.
InitCycle ==
    /\ now = 0
    /\ \E f \in InitFiles : store = [z \in ZoneSet |-> f]
    /\ \E c \in { Missing, Invalid } \cup { ListOf(l) : l \in AccountLists } :
          configs = [z \in ZoneSet |-> IF z = ZONES[1] THEN c ELSE Missing]
    /\ last_commit_times = [z \in ZoneSet |-> NoTime]
    /\ pc = "idle"
    /\ caller = "direct"
    /\ zi = 1
    /\ extLeft = MaxExternal
    /\ InitLocals

NextCycle ==
    \/ refresh_zone_call
    \/ refresh_zone_fetch
    \/ refresh_zone_read
    \/ refresh_zone_write
    \/ ExternalEdit
    \/ ExternalDelete

SpecCycle == InitCycle /\ [][NextCycle]_vars

\* The process left to itself: no other actor changes the store.  The event
\* loop resumes a coroutine whose awaited call has returned or raised, and
\* asyncio.sleep returns, so the running coroutine always takes its next
\* step; the clock moves on until the end of the observation.
Run ==
    \/ check_and_refresh_on_startup
    \/ check_token_validity
    \/ monitor_sleep
    \/ refresh_zone_fetch
    \/ refresh_zone_read
    \/ refresh_zone_write

NextLive == Run \/ Tick

SpecLive == Init /\ [][NextLive]_vars /\ WF_vars(Run) /\ WF_vars(Tick)

(***************************************************************************)
(* Vocabulary of the properties.                                           *)
(***************************************************************************)
Last(log) == log[Len(log)]

MinOf(a, b) == IF a < b THEN a ELSE b

\* The step that performs the write of a cycle and returns to the caller.
WriteStep == pc = "rz_write" /\ pc' # "rz_write"

\* A step of refresh_zone_call: the environment does not act in it.
CallStep == pc = "idle" /\ extLeft' = extLeft

\* A turn of the reconciler's loop, and of the monitor's.
StartupStep == pc = "startup" /\ (pc' # pc \/ zi' # zi)
MonitorStep == pc = "monitor" /\ (pc' # pc \/ zi' # zi)

\* refresh_zone was entered: its first message is one of these two.
Invoked(log) == \E i \in 1..Len(log) : log[i] \in { "refreshing", "unknown" }

\* refresh_zone turned the call down: one message, nothing fetched, read
\* or written, store and cache as before.
Rejected ==
    /\ pc' = "idle"
    /\ notes' = << "unknown" >>
    /\ attempts' = << >>
    /\ calls' = NoCalls
    /\ store' = store
    /\ last_commit_times' = last_commit_times

\* The identifier is a configured zone up to the case of its letters.
FoldsToZone(a) == a \in ZoneSet \/ a = "BR"

\* A record with both fields.
Complete(acc) == DOMAIN acc = { "uid", "password" }

\* The positions fetched, in the order of the fetches.
Positions(att) == [k \in 1..Len(att) |-> att[k][1]]

\* The positions of the complete records among the first n of a list.
ExpectedPositions(data, n) ==
    LET Wanted(i) == Complete(data[i])
    IN  SelectSeq([i \in 1..n |-> i], Wanted)

\* The records of the tokens the auth service returned, in fetch order.
RECURSIVE SuccessfulTokens(_)
SuccessfulTokens(att) ==
    IF att = << >> THEN << >>
    ELSE LET result == Head(att)[2]
             rest == SuccessfulTokens(Tail(att))
         IN  IF result # NoToken /\ result # ""
             THEN << [token |-> result] >> \o rest
             ELSE rest

(***************************************************************************)
(* C1.  No lost update: when the token file's revision at the time of the  *)
(* write is not the revision refresh_zone read (an external actor changed  *)
(* the file in between), the write fails, the cycle reports failure, and   *)
(* the store keeps the external content; the cache is not touched.         *)
(***************************************************************************)
C1_NoLostUpdate ==
    [][ (WriteStep /\ sha # Revision(store[zone]))
            => /\ ~updated'
               /\ Last(notes') = "failed"
               /\ store' = store
               /\ last_commit_times' = last_commit_times ]_vars

\* A write was refused with a conflict and the manual edit is still there.
C1_Witness ==
    /\ pc = "idle"
    /\ write_status = 409
    /\ ~updated
    /\ Last(notes) = "failed"
    /\ store[zone].content = ExtContent
    /\ sha = BlobSha(tokens)

(***************************************************************************)
(* C2.  Whenever the write of a cycle returns failure, refresh_zone emits  *)
(* the failure notification, the invocation ends having issued one write   *)
(* only, and the store is exactly as it was before the write.              *)
(***************************************************************************)
C2_FailedWriteLeavesStore ==
    [][ (WriteStep /\ ~updated')
            => /\ Last(notes') = "failed"
               /\ store' = store
               /\ calls'.write = 1
               /\ pc' = NextPos(caller)[1] ]_vars

\* A write failed on a server error.
C2_Witness ==
    /\ pc = "idle"
    /\ write_status = 500
    /\ calls.write = 1
    /\ ~updated
    /\ Last(notes) = "failed"

(***************************************************************************)
(* C3.  In a turn of the monitor in which lastModified is present,         *)
(* refresh_zone is invoked for the zone if and only if now - lastModified  *)
(* is strictly greater than STALE_TOKEN_HOURS.                             *)
(***************************************************************************)
C3_RefreshIffStale ==
    [][ (MonitorStep /\ pc' # "crashed" /\ commit_dt' # NoTime)
            => /\ commit_dt' = store[ZONES[zi]].mtime
               /\ Invoked(notes') <=> (now - commit_dt' > STALE_TOKEN_HOURS)
               /\ Invoked(notes') => zone' = ZONES[zi] ]_vars

\* A file exactly as old as the threshold was checked and left alone.
C3_Witness ==
    /\ pc \in { "monitor", "sleep" }
    /\ time_diff = STALE_TOKEN_HOURS
    /\ ~Invoked(notes)

(***************************************************************************)
(* C4, as claimed.  For every identifier that is not an element of ZONES,  *)
(* refresh_zone fetches nothing, reads and writes nothing, emits exactly   *)
(* the rejection notification, and leaves store and cache unchanged.       *)
(***************************************************************************)
C4_AsClaimed ==
    [][ (CallStep /\ called_with' \notin ZoneSet) => Rejected ]_vars

(***************************************************************************)
(* C4, amended.  An identifier whose lower-case form is not in ZONES is    *)
(* rejected as claimed; an identifier that differs from a configured zone  *)
(* by case only ("BR") is refreshed as that zone.                          *)
(***************************************************************************)
C4_RejectsUnknownZone ==
    [][ CallStep
            => IF FoldsToZone(called_with')
               THEN zone' \in ZoneSet /\ Head(notes') = "refreshing"
               ELSE Rejected ]_vars

\* An unknown identifier was rejected.
C4_Witness ==
    /\ pc = "idle"
    /\ called_with = "xx"
    /\ zone = "xx"
    /\ notes = << "unknown" >>

(***************************************************************************)
(* C5.  A write that succeeds stores exactly the tokens the successful     *)
(* fetches of the cycle returned, in account-list order: as many records   *)
(* as count_success, none for a failed or skipped account.                 *)
(***************************************************************************)
C5_BatchIsSuccessfulFetches ==
    [][ (WriteStep /\ updated')
            => /\ store'[zone].exists
               /\ store'[zone].content = SuccessfulTokens(attempts)
               /\ Len(store'[zone].content) = count_success
               /\ \A i, j \in 1..Len(attempts) :
                     i < j => attempts[i][1] < attempts[j][1] ]_vars

\* A batch was published that leaves out the account whose fetch failed.
C5_Witness ==
    /\ pc = "idle"
    /\ updated
    /\ count_fail = 1
    /\ count_success = 1
    /\ attempts[1][2] = NoToken
    /\ store[zone].content = << [token |-> TokenOf(2)] >>

(***************************************************************************)
(* C6.  A cycle fetches at most min(N, MAX_TOKENS) times: once for each    *)
(* complete record among the first MAX_TOKENS of the list, in order, and   *)
(* never for a record that lacks uid or password.                          *)
(***************************************************************************)
C6_FetchesWithinCap ==
    (pc \in { "rz_fetch", "rz_write" })
        => LET data == configs[zone].data
               cap == MinOf(Len(data), MAX_TOKENS)
           IN  /\ Len(attempts) <= cap
               /\ Positions(attempts) = ExpectedPositions(data, MinOf(idx - 1, cap))
               /\ pc = "rz_write" => idx - 1 = cap

\* A list longer than the cap, with an incomplete record under the cap and
\* a complete one beyond it, went through the fetch phase.
C6_Witness ==
    /\ pc = "rz_write"
    /\ Len(configs[zone].data) > MAX_TOKENS
    /\ Complete(configs[zone].data[MAX_TOKENS + 1])
    /\ ~Complete(configs[zone].data[1])
    /\ Len(attempts) = MAX_TOKENS - 1

(***************************************************************************)
(* C7.  count_success + count_fail is the number of fetches attempted,     *)
(* which is the number of complete records passed: a record without uid    *)
(* or password adds to neither counter.                                    *)
(***************************************************************************)
C7_CountersCoverAttempts ==
    /\ count_success + count_fail = Len(attempts)
    /\ processed_count = Len(attempts)
    /\ (pc \in { "rz_fetch", "rz_write" })
          => count_success + count_fail =
                Cardinality({ i \in 1..(idx - 1) : Complete(accounts[i]) })

\* The fetch phase ended over a list with a skipped record: one success,
\* no failure.
C7_Witness ==
    /\ pc = "rz_write"
    /\ \E i \in 1..Len(accounts) : ~Complete(accounts[i])
    /\ count_success = 1
    /\ count_fail = 0
    /\ Last(notes) = "summary"

(***************************************************************************)
(* C8, as claimed.  In a turn of the reconciler, refresh_zone is invoked   *)
(* for the zone when its token file is absent from the store, and is not   *)
(* invoked when the file is present.                                       *)
(***************************************************************************)
C8_AsClaimed ==
    [][ StartupStep
            => (Invoked(notes') <=> ~store[ZONES[zi]].exists) ]_vars

(***************************************************************************)
(* C9.  The content of a token file changes only by a whole-file write:    *)
(* the external actor's, or the one write of a cycle, made after the last  *)
(* fetch and holding the complete batch of that cycle.                     *)
(***************************************************************************)
C9_WholeFileWritesOnly ==
    [][ \A z \in ZoneSet :
          store'[z] # store[z]
            => \/ extLeft' < extLeft
               \/ /\ pc = "rz_write"
                  /\ z = zone
                  /\ calls.write = 0
                  /\ idx > Len(accounts)
                  /\ Positions(attempts) =
                        ExpectedPositions(configs[zone].data,
                                          MinOf(Len(configs[zone].data), MAX_TOKENS))
                  /\ store'[z].content = SuccessfulTokens(attempts) ]_vars

\* A cycle replaced an existing file by its complete batch of MAX_TOKENS.
C9_Witness ==
    /\ pc = "idle"
    /\ write_status = 200
    /\ updated
    /\ Len(tokens) = MAX_TOKENS
    /\ store[zone].content = tokens

(***************************************************************************)
(* C10, as claimed.  No error met while a zone is checked or refreshed     *)
(* ends the reconciler or the monitor: neither coroutine ever stops on an  *)
(* exception, so every remaining zone is still examined.                   *)
(***************************************************************************)
C10_AsClaimed == pc # "crashed"

(***************************************************************************)
(* Vocabulary of the store client's properties.                            *)
(***************************************************************************)
\* The step in which refresh_zone awaits get_github_file_content.
ReadStep == pc = "rz_fetch" /\ calls'.read = calls.read + 1

(***************************************************************************)
(* C11, as claimed.  None of the four operations of the store client       *)
(* raises to its caller: exists and lastModified hand the reconciler and   *)
(* the monitor an answer, read hands refresh_zone a revision (or none) so  *)
(* that it goes on to the write, and write hands it true or false.         *)
(***************************************************************************)
C11_AsClaimed ==
    [][ /\ StartupStep => pc' # "crashed"
        /\ MonitorStep => pc' # "crashed"
        /\ ReadStep => pc' = "rz_write"
        /\ WriteStep => Last(notes') = WriteReport(write_status' \in { 200, 201 }) ]_vars

(***************************************************************************)
(* Vocabulary of the retry properties.                                     *)
(***************************************************************************)
\* A cycle of zone z has just ended in failure: the account list was not
\* available, the write returned false, or an exception was caught.
Failed(z) ==
    /\ zone = z
    /\ pc \notin { "rz_fetch", "rz_write" }
    /\ notes # << >>
    /\ Last(notes) \in { "noconfig", "error", "failed" }

\* The monitor's latest turn invoked refresh_zone for zone z.
MonitorInvoked(z) == caller = "monitor" /\ zone = z /\ Invoked(notes)

(***************************************************************************)
(* C12, as claimed.  With no other actor changing the store, every cycle   *)
(* that ends in failure, whether the reconciler or the monitor invoked it, *)
(* is followed by a later turn of the monitor that invokes refresh_zone    *)
(* for the same zone again.  The claim is granted the behaviours in which  *)
(* an uncaught exception ends the reconciler or the monitor (C10): it is   *)
(* stated for those in which the monitor keeps running.                    *)
(***************************************************************************)
C12_AsClaimed ==
    \/ <>(pc = "crashed")
    \/ \A z \in ZoneSet :
          [](Failed(z) => <>(~MonitorInvoked(z) /\ <>MonitorInvoked(z)))

(***************************************************************************)
(* C13.  A turn of the monitor for a zone whose token path has no history  *)
(* (lastModified is absent) never invokes refresh_zone: the monitor moves  *)
(* on with the store and the cache untouched, at whatever time and in      *)
(* whichever iteration the turn is taken.                                  *)
(***************************************************************************)
C13_NoHistoryNoRefresh ==
    [][ (MonitorStep /\ store[ZONES[zi]].mtime = NoTime)
            => /\ commit_dt' = NoTime
               /\ ~Invoked(notes')
               /\ pc' \notin { "rz_fetch", "rz_write" }
               /\ store' = store
               /\ last_commit_times' = last_commit_times ]_vars

\* Long after the start the monitor has finished an iteration over zones
\* none of which ever had a token file, without invoking a refresh.
C13_Witness ==
    /\ pc = "sleep"
    /\ now > STALE_TOKEN_HOURS
    /\ \A z \in ZoneSet : store[z].mtime = NoTime
    /\ commit_dt = NoTime
    /\ notes = << >>

(***************************************************************************)
(* Vocabulary of refresh_zone's entry.                                     *)
(***************************************************************************)
\* A step in which a caller (the reconciler, the monitor, or a direct
\* caller) invokes refresh_zone.
EnterStep ==
    /\ pc \in { "startup", "monitor", "idle" }
    /\ now' = now
    /\ extLeft' = extLeft
    /\ Invoked(notes')

(***************************************************************************)
(* C14.  When refresh_zone is invoked for a configured zone whose account  *)
(* list cannot be loaded (the file is missing or unreadable), it notifies  *)
(* the failure and returns to its caller, which goes on: nothing is        *)
(* fetched, read or written, and store and cache are as before.            *)
(***************************************************************************)
C14_UnavailableListAborts ==
    [][ (EnterStep /\ zone' \in ZoneSet /\ configs[zone'].kind # "list")
            => /\ Last(notes') =
                    (IF configs[zone'].kind = "missing" THEN "noconfig" ELSE "error")
               /\ notes'[Len(notes') - 1] = "refreshing"
               /\ pc' = NextPos(caller')[1]
               /\ pc' \notin { "rz_fetch", "rz_write", "crashed" }
               /\ attempts' = << >>
               /\ calls' = NoCalls
               /\ store' = store
               /\ last_commit_times' = last_commit_times ]_vars

\* The reconciler invoked refresh_zone for the second zone, whose config
\* file is missing, and went on to the third zone.
C14_Witness ==
    /\ pc = "startup"
    /\ zi = 3
    /\ zone = ZONES[2]
    /\ configs[zone].kind = "missing"
    /\ notes = << "blank", "nofile", "refreshing", "noconfig" >>
    /\ attempts = << >>
    /\ calls = NoCalls

(***************************************************************************)
(* Vocabulary of the monitor's turns.                                      *)
(***************************************************************************)
\* The zone of the turn the reconciler or the monitor took last.
CheckedZone ==
    IF pc = "sleep" \/ zi = 1 THEN ZONES[Len(ZONES)] ELSE ZONES[zi - 1]

(***************************************************************************)
(* C15.  Whether a turn of the reconciler or of the monitor invokes        *)
(* refresh_zone is decided by the store's answer and the clock alone: the  *)
(* monitor refreshes exactly when the timestamp the store returned is      *)
(* older than the threshold, the reconciler whenever the file is not       *)
(* found, whatever last_commit_times holds (empty as after a restart, or   *)
(* populated by earlier cycles, even with times that disagree with the     *)
(* store's).                                                               *)
(***************************************************************************)
C15_DecisionsIgnoreCache ==
    [][ /\ (MonitorStep /\ pc' # "crashed")
            => /\ commit_dt' \in { NoTime, store[ZONES[zi]].mtime }
               /\ Invoked(notes')
                    <=> (commit_dt' # NoTime /\ now - commit_dt' > STALE_TOKEN_HOURS)
        /\ (StartupStep /\ pc' # "crashed")
            => /\ ~store[ZONES[zi]].exists => Invoked(notes')
               /\ ~Invoked(notes') => notes' = << "found" >> ]_vars

\* The monitor left alone a zone whose cached publish time is older than
\* the threshold, because the store's timestamp (a later manual edit) is not.
C15_Witness ==
    /\ pc \in { "monitor", "sleep" }
    /\ caller = "startup"
    /\ last_commit_times[CheckedZone] # NoTime
    /\ now - last_commit_times[CheckedZone] > STALE_TOKEN_HOURS
    /\ commit_dt = store[CheckedZone].mtime
    /\ time_diff = now - commit_dt
    /\ time_diff <= STALE_TOKEN_HOURS
    /\ commit_dt # NoTime
    /\ notes = << >>

(***************************************************************************)
(* C16.  The cache changes in one way only: the step in which the write    *)
(* of a cycle of zone Z is accepted by the store sets last_commit_times[Z] *)
(* to the time of the write and leaves the other entries alone.  Every     *)
(* other step (a rejected identifier, a missing account list, a failed     *)
(* write, a caught exception, a fetch) leaves the whole cache unchanged.   *)
(***************************************************************************)
C16_CacheSetOnSuccessOnly ==
    [][ IF WriteStep /\ write_status' \in { 200, 201 }
        THEN /\ updated'
             /\ last_commit_times' = [last_commit_times EXCEPT ![zone] = now]
        ELSE last_commit_times' = last_commit_times ]_vars

\* A first publish recorded its time for its zone and for no other zone.
C16_Witness ==
    /\ pc = "idle"
    /\ updated
    /\ write_status = 201
    /\ last_commit_times[zone] = now
    /\ \A z \in ZoneSet \ { zone } : last_commit_times[z] = NoTime

(***************************************************************************)
(* Vocabulary of the progress notifications.                               *)
(***************************************************************************)
\* The number of progress notifications in a log.
ProgressNotes(log) == Cardinality({ i \in 1..Len(log) : log[i] = "progress" })

(***************************************************************************)
(* C17, as claimed.  Throughout a cycle the progress notifications emitted *)
(* so far are one for each positive multiple of the cadence that the       *)
(* number of processed accounts has reached, and no other, wherever the    *)
(* skipped records stand in the list.                                      *)
(***************************************************************************)
C17_AsClaimed ==
    (pc \in { "rz_fetch", "rz_write" })
        => ProgressNotes(notes) = processed_count \div ProgressEvery

(***************************************************************************)
(* C18.  No fetch result keeps a cycle from publishing: the fetch phase is *)
(* left by the read of the revision only, once every account of the list   *)
(* was passed and whatever the batch holds; and a write that is accepted   *)
(* after zero successful fetches replaces the token file by the empty      *)
(* batch and is reported as an update.                                     *)
(***************************************************************************)
C18_EmptyBatchIsPublished ==
    [][ /\ (pc = "rz_fetch" /\ pc' # "rz_fetch")
            => (ReadStep /\ idx > Len(accounts))
        /\ (WriteStep /\ count_success = 0 /\ write_status' \in { 200, 201 })
            => /\ tokens = << >>
               /\ store'[zone] = Written(<< >>, now)
               /\ updated'
               /\ Last(notes') = "updated" ]_vars

\* Every fetch of a cycle failed and its write replaced a token file that
\* held a token by an empty one.
C18_Witness ==
    /\ pc = "idle"
    /\ Len(accounts) > 0
    /\ count_fail = Len(accounts)
    /\ count_success = 0
    /\ sha = BlobSha(ExtContent)
    /\ write_status = 200
    /\ updated
    /\ store[zone].exists
    /\ store[zone].content = << >>

(***************************************************************************)
(* Vocabulary of the publish times.                                        *)
(***************************************************************************)
\* The token file of zone z is as the last successful cycle of z left it:
\* nobody changed it since that publish.
Published(z) ==
    /\ last_commit_times[z] # NoTime
    /\ store[z].exists
    /\ store[z].mtime = last_commit_times[z]

(***************************************************************************)
(* C19.  While the token file of a zone is as a successful cycle published *)
(* it, a turn of the monitor invokes refresh_zone for that zone only when  *)
(* more than STALE_TOKEN_HOURS have passed since that publish; up to and   *)
(* including that age, iteration after iteration leaves the zone alone.    *)
(***************************************************************************)
C19_NoRefreshWhileFresh ==
    [][ (MonitorStep /\ Published(ZONES[zi]))
            => /\ Invoked(notes')
                    => now - last_commit_times[ZONES[zi]] > STALE_TOKEN_HOURS
               /\ now - last_commit_times[ZONES[zi]] <= STALE_TOKEN_HOURS
                    => (store' = store /\ pc' \notin { "rz_fetch", "rz_write" }) ]_vars

\* The monitor refreshed a zone, the cycle published, and the monitor's next
\* check of the zone, in the following iteration, left it alone.
C19_Witness ==
    /\ pc \in { "monitor", "sleep" }
    /\ caller = "monitor"
    /\ zone = CheckedZone
    /\ Published(zone)
    /\ last_commit_times[zone] = now
    /\ commit_dt = now
    /\ time_diff = 0
    /\ notes = << >>

(***************************************************************************)
(* C20.  The revision sent with the write is read once, after the last     *)
(* auth fetch of the cycle, and is the revision the file has at that       *)
(* moment.  A change another actor made to the file during the fetch phase *)
(* (and none after the read) therefore meets no conflict: the revision     *)
(* sent is the file's, and an accepted write replaces the changed file by  *)
(* the new batch.                                                          *)
(***************************************************************************)
C20_RevisionReadAfterFetches ==
    [][ /\ (pc = "rz_fetch" /\ ~ReadStep) => (sha = NoSha /\ sha' = NoSha)
        /\ ReadStep
            => /\ idx > Len(accounts)
               /\ calls.read = 0
               /\ sha' \in { NoSha, Revision(store[zone]) }
        /\ (WriteStep /\ changed_in = "rz_fetch")
            => /\ sha \in { NoSha, Revision(store[zone]) }
               /\ write_status' # 409
               /\ write_status' \in { 200, 201 }
                    => /\ updated'
                       /\ store'[zone] = Written(tokens, now) ]_vars

\* A manual edit made while the cycle was fetching was read as the current
\* revision and replaced by the batch of the cycle.
C20_Witness ==
    /\ pc = "idle"
    /\ changed_in = "rz_fetch"
    /\ Len(attempts) > 0
    /\ sha = BlobSha(ExtContent)
    /\ write_status = 200
    /\ updated
    /\ tokens # << >>
    /\ store[zone].content = tokens

====
